---- MODULE Spec2Model ----
(***************************************************************************)
(* A model of the chess rules engine (chess/engine.js) and of the click    *)
(* handling of the React front end (App.js) that drives it.                *)
(*                                                                         *)
(* A position is [board |-> b] with b[r][c] a piece or null, r and c in    *)
(* 0..7, row 0 the black back rank.  A move is a record with the fields    *)
(* from, to, promotion ("" when the JS field is absent) and captured       *)
(* (null when the JS field is absent).  Lists are sequences in the order   *)
(* the code pushes them.  Strings are sequences of one-character strings.  *)
(***************************************************************************)
EXTENDS Integers, Sequences, FiniteSets, TLC

VARIABLES position, turn, selected, legalMovesFromSelected, moveHistory,
          status, allLegalMoves, lastCall

vars == <<position, turn, selected, legalMovesFromSelected, moveHistory,
          status, allLegalMoves, lastCall>>

-----------------------------------------------------------------------------
(* Values *)

BoardSize == 8

Idx == 0..(BoardSize - 1)

Colors == {"w", "b"}

FILES == <<"a", "b", "c", "d", "e", "f", "g", "h">>

DIGITS == <<"0", "1", "2", "3", "4", "5", "6", "7", "8", "9">>

\* JS null / undefined for a piece, a square and a promotion marker.
null == [color |-> "none", type |-> "none"]

nullSquare == [r |-> -1, c |-> -1]

noPromotion == ""

Piece(color, type) == [color |-> color, type |-> type]

Sq(r, c) == [r |-> r, c |-> c]

Move(from, to, promotion, captured) ==
  [from |-> from, to |-> to, promotion |-> promotion, captured |-> captured]

emptyBoard == [r \in Idx |-> [c \in Idx |-> null]]

backRank(color) ==
  [c \in Idx |-> Piece(color, <<"R", "N", "B", "Q", "K", "B", "N", "R">>[c + 1])]

createInitialPosition ==
  [board |-> [r \in Idx |->
     CASE r = 0 -> backRank("b")
       [] r = 1 -> [c \in Idx |-> Piece("b", "P")]
       [] r = 6 -> [c \in Idx |-> Piece("w", "P")]
       [] r = 7 -> backRank("w")
       [] OTHER -> emptyBoard[r]]]

\* `${n}` for a one-digit number.
numberToString(n) == <<DIGITS[n + 1]>>

squareToAlgebraic(sq) == <<FILES[sq.c + 1]>> \o numberToString(BoardSize - sq.r)

inside(r, c) == r >= 0 /\ r < BoardSize /\ c >= 0 /\ c < BoardSize

clonePosition(pos) ==
  [board |-> [r \in Idx |-> [c \in Idx |-> pos.board[r][c]]]]

opposite(color) == IF color = "w" THEN "b" ELSE "w"

findKing(pos, color) ==
  LET ks == {i \in 0..(BoardSize * BoardSize - 1) :
               LET p == pos.board[i \div BoardSize][i % BoardSize]
               IN p # null /\ p.color = color /\ p.type = "K"}
  IN IF ks = {} THEN nullSquare
     ELSE LET i == CHOOSE i \in ks : \A j \in ks : i <= j
          IN Sq(i \div BoardSize, i % BoardSize)

isEmpty(pos, r, c) == pos.board[r][c] = null

isEnemy(pos, r, c, color) ==
  LET p == pos.board[r][c] IN p # null /\ p.color # color

-----------------------------------------------------------------------------
(* Pseudo-legal move generation *)

\* pushIfValid that does not record the captured piece.
pushIfValidNoCaptured(moves, pos, from, r, c, color) ==
  IF ~inside(r, c) THEN moves
  ELSE LET target == pos.board[r][c]
       IN IF target = null \/ target.color # color
            THEN Append(moves, Move(from, Sq(r, c), noPromotion, null))
          ELSE moves

pushIfValid(moves, pos, from, r, c, color) ==
  IF ~inside(r, c) THEN moves
  ELSE LET target == pos.board[r][c]
       IN IF target = null
            THEN Append(moves, Move(from, Sq(r, c), noPromotion, null))
          ELSE IF target.color # color
            THEN Append(moves, Move(from, Sq(r, c), noPromotion, target))
          ELSE moves

\* The loop `for (const [dr, dc] of deltas) pushIfValid(...)` of the knight
\* and the king, from delta number i on.
RECURSIVE pushDeltas(_, _, _, _, _, _)
pushDeltas(moves, pos, from, color, deltas, i) ==
  IF i > Len(deltas) THEN moves
  ELSE pushDeltas(
         pushIfValid(moves, pos, from, from.r + deltas[i][1],
                     from.c + deltas[i][2], color),
         pos, from, color, deltas, i + 1)

\* The sliding loop that stops at the first occupied square without emitting
\* the capture.
RECURSIVE slideNoCapture(_, _, _, _, _, _, _, _)
slideNoCapture(moves, pos, from, color, dr, dc, r, c) ==
  IF ~inside(r, c) THEN moves
  ELSE IF pos.board[r][c] = null
    THEN slideNoCapture(Append(moves, Move(from, Sq(r, c), noPromotion, null)),
                        pos, from, color, dr, dc, r + dr, c + dc)
  ELSE moves

\* The while loop of genSliding for one direction, standing on (r, c).
RECURSIVE slide(_, _, _, _, _, _, _, _)
slide(moves, pos, from, color, dr, dc, r, c) ==
  IF ~inside(r, c) THEN moves
  ELSE LET target == pos.board[r][c]
       IN IF target = null
            THEN slide(Append(moves, Move(from, Sq(r, c), noPromotion, null)),
                       pos, from, color, dr, dc, r + dr, c + dc)
          ELSE IF target.color # color
            THEN Append(moves, Move(from, Sq(r, c), noPromotion, target))
          ELSE moves

RECURSIVE genSlidingFrom(_, _, _, _, _, _)
genSlidingFrom(moves, pos, from, color, deltas, i) ==
  IF i > Len(deltas) THEN moves
  ELSE genSlidingFrom(
         slide(moves, pos, from, color, deltas[i][1], deltas[i][2],
               from.r + deltas[i][1], from.c + deltas[i][2]),
         pos, from, color, deltas, i + 1)

\* genSliding whose loop lacks the break after a capture.
RECURSIVE slideNoBreak(_, _, _, _, _, _, _, _)
slideNoBreak(moves, pos, from, color, dr, dc, r, c) ==
  IF ~inside(r, c) THEN moves
  ELSE LET target == pos.board[r][c]
       IN IF target = null
            THEN slideNoBreak(
                   Append(moves, Move(from, Sq(r, c), noPromotion, null)),
                   pos, from, color, dr, dc, r + dr, c + dc)
          ELSE IF target.color # color
            THEN slideNoBreak(
                   Append(moves, Move(from, Sq(r, c), noPromotion, target)),
                   pos, from, color, dr, dc, r + dr, c + dc)
          ELSE moves

RECURSIVE genSlidingFromNoBreak(_, _, _, _, _, _)
genSlidingFromNoBreak(moves, pos, from, color, deltas, i) ==
  IF i > Len(deltas) THEN moves
  ELSE genSlidingFromNoBreak(
         slideNoBreak(moves, pos, from, color, deltas[i][1], deltas[i][2],
                      from.r + deltas[i][1], from.c + deltas[i][2]),
         pos, from, color, deltas, i + 1)

genSlidingNoBreak(pos, from, color, deltas) ==
  genSlidingFromNoBreak(<<>>, pos, from, color, deltas, 1)

genSliding(pos, from, color, deltas) ==
  genSlidingFrom(<<>>, pos, from, color, deltas, 1)

KnightDeltas ==
  << <<-2, -1>>, <<-2, 1>>, <<-1, -2>>, <<-1, 2>>,
     <<1, -2>>, <<1, 2>>, <<2, -1>>, <<2, 1>> >>

BishopDeltas == << <<-1, -1>>, <<-1, 1>>, <<1, -1>>, <<1, 1>> >>

RookDeltas == << <<-1, 0>>, <<1, 0>>, <<0, -1>>, <<0, 1>> >>

QueenDeltas == BishopDeltas \o RookDeltas

KingDeltas ==
  << <<-1, -1>>, <<-1, 0>>, <<-1, 1>>, <<0, -1>>,
     <<0, 1>>, <<1, -1>>, <<1, 0>>, <<1, 1>> >>

WhiteStartRow == 6

BlackStartRow == 1

LastRow == 7

isPromotionRow(r) == r = 0 \/ r = LastRow

\* pawnForward with the start rows of the two colours swapped.
pawnForwardSwappedStart(pos, from, color) ==
  LET dir == IF color = "w" THEN -1 ELSE 1
      startRow == IF color = "w" THEN BlackStartRow ELSE WhiteStartRow
      r1 == from.r + dir
      r2 == from.r + 2 * dir
  IN IF inside(r1, from.c) /\ isEmpty(pos, r1, from.c)
     THEN <<Move(from, Sq(r1, from.c),
                 IF isPromotionRow(r1) THEN "Q" ELSE noPromotion, null)>>
          \o (IF from.r = startRow /\ inside(r2, from.c)
                 /\ isEmpty(pos, r2, from.c)
              THEN <<Move(from, Sq(r2, from.c), noPromotion, null)>>
              ELSE <<>>)
     ELSE <<>>

pawnForward(pos, from, color) ==
  LET dir == IF color = "w" THEN -1 ELSE 1
      startRow == IF color = "w" THEN WhiteStartRow ELSE BlackStartRow
      r1 == from.r + dir
      r2 == from.r + 2 * dir
  IN IF inside(r1, from.c) /\ isEmpty(pos, r1, from.c)
     THEN <<Move(from, Sq(r1, from.c),
                 IF isPromotionRow(r1) THEN "Q" ELSE noPromotion, null)>>
          \o (IF from.r = startRow /\ inside(r2, from.c)
                 /\ isEmpty(pos, r2, from.c)
              THEN <<Move(from, Sq(r2, from.c), noPromotion, null)>>
              ELSE <<>>)
     ELSE <<>>

\* pawnCapture that never marks a capture as a promotion.
pawnCaptureNoPromotion(pos, from, color, dc) ==
  LET dir == IF color = "w" THEN -1 ELSE 1
      r1 == from.r + dir
      rc == from.c + dc
  IN IF ~inside(r1, rc) THEN <<>>
     ELSE IF isEnemy(pos, r1, rc, color)
       THEN <<Move(from, Sq(r1, rc), noPromotion, pos.board[r1][rc])>>
     ELSE <<>>

pawnCapture(pos, from, color, dc) ==
  LET dir == IF color = "w" THEN -1 ELSE 1
      r1 == from.r + dir
      rc == from.c + dc
  IN IF ~inside(r1, rc) THEN <<>>
     ELSE IF isEnemy(pos, r1, rc, color)
       THEN <<Move(from, Sq(r1, rc),
                   IF isPromotionRow(r1) THEN "Q" ELSE noPromotion,
                   pos.board[r1][rc])>>
     ELSE <<>>

pseudoLegalMovesForSquare(pos, from) ==
  LET piece == pos.board[from.r][from.c]
      color == piece.color
  IN IF piece = null THEN <<>>
     ELSE CASE piece.type = "P" ->
                 pawnForward(pos, from, color)
                 \o pawnCapture(pos, from, color, -1)
                 \o pawnCapture(pos, from, color, 1)
            [] piece.type = "N" ->
                 pushDeltas(<<>>, pos, from, color, KnightDeltas, 1)
            [] piece.type = "B" -> genSliding(pos, from, color, BishopDeltas)
            [] piece.type = "R" -> genSliding(pos, from, color, RookDeltas)
            [] piece.type = "Q" -> genSliding(pos, from, color, QueenDeltas)
            [] piece.type = "K" ->
                 pushDeltas(<<>>, pos, from, color, KingDeltas, 1)
            [] OTHER -> <<>>

-----------------------------------------------------------------------------
(* Attack and check *)

isSquareAttacked(pos, square, byColor) ==
  \E r \in Idx, c \in Idx :
    LET p == pos.board[r][c]
    IN /\ p # null
       /\ p.color = byColor
       /\ IF p.type = "P"
          THEN LET dir == IF byColor = "w" THEN -1 ELSE 1
               IN \E dc \in {-1, 1} : r + dir = square.r /\ c + dc = square.c
          ELSE LET pseudo == pseudoLegalMovesForSquare(pos, Sq(r, c))
               IN \E i \in 1..Len(pseudo) :
                    pseudo[i].to.r = square.r /\ pseudo[i].to.c = square.c

\* inCheck that asks for attacks by the king's own colour.
inCheckByOwnColor(pos, color) ==
  LET kingSq == findKing(pos, color)
  IN IF kingSq = nullSquare THEN FALSE
     ELSE isSquareAttacked(pos, kingSq, color)

inCheck(pos, color) ==
  LET kingSq == findKing(pos, color)
  IN IF kingSq = nullSquare THEN FALSE
     ELSE isSquareAttacked(pos, kingSq, opposite(color))

-----------------------------------------------------------------------------
(* Applying a move *)

\* applyMove on a store of two board objects: "arg" is the caller's position,
\* "next" the object clonePosition allocates.  clonedRef is the reference
\* clonePosition returns.
\* clonePosition returning its argument instead of a copy.
clonedRefAliased == "arg"

clonedRef == "next"

applyMoveStore(pos, move) ==
  LET store0 == [arg |-> pos, next |-> clonePosition(pos)]
      ref == clonedRef
      piece == store0[ref].board[move.from.r][move.from.c]
      store1 == [store0 EXCEPT ![ref].board[move.from.r][move.from.c] = null]
      placed == IF piece # null /\ piece.type = "P"
                   /\ move.promotion # noPromotion
                THEN Piece(piece.color, move.promotion)
                ELSE piece
  IN [store1 EXCEPT ![ref].board[move.to.r][move.to.c] = placed]

applyMove(pos, move) == applyMoveStore(pos, move)[clonedRef]

\* wouldLeaveKingInCheck that looks at the position before the move.
wouldLeaveKingInCheckBeforeMove(pos, move, moverColor) ==
  inCheck(pos, moverColor)

wouldLeaveKingInCheck(pos, move, moverColor) ==
  inCheck(applyMove(pos, move), moverColor)

pieceLetter(pieceType) == IF pieceType = "P" THEN <<>> ELSE <<pieceType>>

moveToSANLike(pos, move) ==
  LET piece == pos.board[move.from.r][move.from.c]
  IN IF piece = null
     THEN squareToAlgebraic(move.from) \o <<"-">> \o squareToAlgebraic(move.to)
     ELSE LET captureMark == IF move.captured # null THEN <<"x">> ELSE <<"-">>
              promo == IF move.promotion # noPromotion
                       THEN <<"=", move.promotion>> ELSE <<>>
          IN pieceLetter(piece.type) \o squareToAlgebraic(move.from)
             \o captureMark \o squareToAlgebraic(move.to) \o promo

\* makeMove, with the caller's position object as it is after the call.
makeMove(pos, move) ==
  LET store == applyMoveStore(pos, move)
  IN [position |-> store[clonedRef],
      san |-> moveToSANLike(store.arg, move),
      arg |-> store.arg]

\* generateLegalMoves without the king-safety filter.
RECURSIVE unfilteredInRow(_, _, _, _)
unfilteredInRow(pos, t, r, c) ==
  IF c >= BoardSize THEN <<>>
  ELSE LET p == pos.board[r][c]
       IN (IF p = null \/ p.color # t THEN <<>>
           ELSE pseudoLegalMovesForSquare(pos, Sq(r, c)))
          \o unfilteredInRow(pos, t, r, c + 1)

RECURSIVE unfilteredFrom(_, _, _)
unfilteredFrom(pos, t, r) ==
  IF r >= BoardSize THEN <<>>
  ELSE unfilteredInRow(pos, t, r, 0) \o unfilteredFrom(pos, t, r + 1)

generateLegalMovesUnfiltered(pos, t) == unfilteredFrom(pos, t, 0)

\* The inner loop of generateLegalMoves: row r from column c on.
RECURSIVE legalInRow(_, _, _, _)
legalInRow(pos, t, r, c) ==
  IF c >= BoardSize THEN <<>>
  ELSE LET p == pos.board[r][c]
       IN (IF p = null \/ p.color # t THEN <<>>
           ELSE SelectSeq(pseudoLegalMovesForSquare(pos, Sq(r, c)),
                          LAMBDA mv : ~wouldLeaveKingInCheck(pos, mv, t)))
          \o legalInRow(pos, t, r, c + 1)

\* The outer loop of generateLegalMoves: from row r on.
RECURSIVE legalFrom(_, _, _)
legalFrom(pos, t, r) ==
  IF r >= BoardSize THEN <<>>
  ELSE legalInRow(pos, t, r, 0) \o legalFrom(pos, t, r + 1)

generateLegalMoves(pos, t) == legalFrom(pos, t, 0)

-----------------------------------------------------------------------------
(* The front end: App.js *)

\* Bounds of the model.
MaxMoves == 5

MaxExtra == 2

parseSquare(algebraic) ==
  LET file == algebraic[1]
      rank == CHOOSE n \in 0..9 : DIGITS[n + 1] = algebraic[2]
      c == IF \E i \in 1..Len(FILES) : FILES[i] = file
           THEN (CHOOSE i \in 1..Len(FILES) : FILES[i] = file) - 1
           ELSE -1
  IN Sq(BoardSize - rank, c)

\* The squares the modelled user clicks on.
ClickSquares ==
  { parseSquare(a) : a \in { <<"f", "2">>, <<"f", "3">>, <<"e", "7">>,
                             <<"e", "5">>, <<"g", "2">>, <<"g", "4">>,
                             <<"d", "8">>, <<"h", "4">>, <<"g", "1">>,
                             <<"e", "1">>, <<"a", "4">>, <<"b", "7">>,
                             <<"d", "7">> } }

\* The status evaluation with stalemate declared whenever no move is left.
evaluateStatusNoCheckTest(pos, t, legal) ==
  LET isInCheck == inCheck(pos, t)
      noMoves == Len(legal) = 0
  IN [inCheck |-> isInCheck,
      checkmated |-> noMoves /\ isInCheck,
      stalemated |-> noMoves]

evaluateStatus(pos, t, legal) ==
  LET isInCheck == inCheck(pos, t)
      noMoves == Len(legal) = 0
  IN [inCheck |-> isInCheck,
      checkmated |-> noMoves /\ isInCheck,
      stalemated |-> noMoves /\ ~isInCheck]

isSelectablePiece(r, c) ==
  LET piece == position.board[r][c]
  IN piece # null /\ piece.color = turn

isLegalDestination(r, c) ==
  \E i \in 1..Len(legalMovesFromSelected) :
    legalMovesFromSelected[i].to.r = r /\ legalMovesFromSelected[i].to.c = c

getMoveForDestination(r, c) ==
  LET i == CHOOSE i \in 1..Len(legalMovesFromSelected) :
             /\ legalMovesFromSelected[i].to.r = r
             /\ legalMovesFromSelected[i].to.c = c
             /\ \A j \in 1..(i - 1) :
                  ~(legalMovesFromSelected[j].to.r = r
                    /\ legalMovesFromSelected[j].to.c = c)
  IN legalMovesFromSelected[i]

noCall ==
  [made |-> FALSE, before |-> [board |-> emptyBoard],
   arg |-> [board |-> emptyBoard],
   move |-> Move(nullSquare, nullSquare, noPromotion, null),
   color |-> "none", san |-> <<>>]

\* The state after a render in which position and turn became pos and t with
\* the selection cleared: legal is what the memo recomputes for allLegalMoves,
\* and the effect evaluates the status (its clearing of the selection clears
\* a selection that is clear already).
RenderedWith(pos, t, legal) ==
  /\ position' = pos
  /\ turn' = t
  /\ allLegalMoves' = legal
  /\ status' = evaluateStatus(pos, t, legal)
  /\ selected' = nullSquare
  /\ legalMovesFromSelected' = <<>>

Rendered(pos, t) == RenderedWith(pos, t, generateLegalMoves(pos, t))

\* generateLegalMoves(createInitialPosition(), "w"), computed once.
initialLegalMoves == generateLegalMoves(createInitialPosition, "w")

\* The selection storing every legal move, not only those of the square.
SelectUnfiltered(r, c) ==
  /\ selected' = Sq(r, c)
  /\ legalMovesFromSelected' = allLegalMoves
  /\ UNCHANGED <<position, turn, moveHistory, status, allLegalMoves, lastCall>>

Select(r, c) ==
  /\ selected' = Sq(r, c)
  /\ legalMovesFromSelected' =
       SelectSeq(allLegalMoves, LAMBDA m : m.from.r = r /\ m.from.c = c)
  /\ UNCHANGED <<position, turn, moveHistory, status, allLegalMoves, lastCall>>

ClearSelection ==
  /\ selected' = nullSquare
  /\ legalMovesFromSelected' = <<>>
  /\ UNCHANGED <<position, turn, moveHistory, status, allLegalMoves, lastCall>>

Play(move) ==
  LET res == makeMove(position, move)
  IN /\ Rendered(res.position, IF turn = "w" THEN "b" ELSE "w")
     /\ moveHistory' = Append(moveHistory, res.san)
     /\ lastCall' = [made |-> TRUE, before |-> position, arg |-> res.arg,
                     move |-> move, color |-> turn, san |-> res.san]

handleSquareClick(r, c) ==
  IF status.checkmated \/ status.stalemated THEN UNCHANGED vars
  ELSE IF selected # nullSquare
    THEN IF isLegalDestination(r, c)
           THEN /\ Len(moveHistory) < MaxMoves
                /\ Play(getMoveForDestination(r, c))
         ELSE IF isSelectablePiece(r, c) THEN Select(r, c)
         ELSE ClearSelection
  ELSE IF isSelectablePiece(r, c) THEN Select(r, c)
  ELSE UNCHANGED vars

HandleSquareClick == \E sq \in ClickSquares : handleSquareClick(sq.r, sq.c)

restartGame ==
  /\ RenderedWith(createInitialPosition, "w", initialLegalMoves)
  /\ moveHistory' = <<>>
  /\ UNCHANGED lastCall

Init ==
  /\ position = createInitialPosition
  /\ turn = "w"
  /\ selected = nullSquare
  /\ legalMovesFromSelected = <<>>
  /\ moveHistory = <<>>
  /\ allLegalMoves = initialLegalMoves
  /\ status = evaluateStatus(createInitialPosition, "w", initialLegalMoves)
  /\ lastCall = noCall

Next == HandleSquareClick \/ restartGame

Spec == Init /\ [][Next]_vars

-----------------------------------------------------------------------------
(* The engine on its own: a position drawn from a family of sparse boards   *)
(* (two kings and up to MaxExtra more pieces, the side not to move not in  *)
(* check), and makeMove applied once to a legal move of the side to move.  *)

place(pos, sq, piece) == [pos EXCEPT !.board[sq.r][sq.c] = piece]

RECURSIVE placeAll(_, _)
placeAll(pos, items) ==
  IF items = {} THEN pos
  ELSE LET it == CHOOSE it \in items : TRUE
       IN placeAll(place(pos, it.sq, it.piece), items \ {it})

At(a, color, type) == [sq |-> parseSquare(a), piece |-> Piece(color, type)]

CornerKings == {At(<<"a", "8">>, "b", "K"), At(<<"a", "6">>, "w", "K")}

HomeKings == {At(<<"e", "8">>, "b", "K"), At(<<"e", "1">>, "w", "K")}

KingPlacements == {CornerKings, HomeKings}

ExtraPlacements ==
  { At(<<"b", "6">>, "w", "P"), At(<<"b", "7">>, "w", "P"),
    At(<<"c", "8">>, "b", "R"), At(<<"g", "2">>, "b", "P"),
    At(<<"f", "1">>, "w", "N"), At(<<"e", "4">>, "w", "Q"),
    At(<<"e", "6">>, "b", "B"), At(<<"d", "7">>, "w", "R"),
    At(<<"f", "6">>, "b", "N") }

\* The boards with the kings of one of the placements and up to MaxExtra of
\* the extra pieces.
SeedsWith(kingPlacements) ==
  { placeAll([board |-> emptyBoard], ks \cup ex) :
      ks \in kingPlacements,
      ex \in {e \in SUBSET ExtraPlacements : Cardinality(e) <= MaxExtra} }

SeedPositions == SeedsWith(KingPlacements)

InitFrom(positions) ==
  /\ position \in positions
  /\ turn \in Colors
  /\ ~inCheck(position, opposite(turn))
  /\ selected = nullSquare
  /\ legalMovesFromSelected = <<>>
  /\ moveHistory = <<>>
  /\ allLegalMoves = generateLegalMoves(position, turn)
  /\ status = evaluateStatus(position, turn, generateLegalMoves(position, turn))
  /\ lastCall = noCall

InitEngine == InitFrom(SeedPositions)

\* One call of makeMove on the drawn position, with any of its legal moves.
PlayLegalMove ==
  /\ ~lastCall.made
  /\ \E i \in 1..Len(allLegalMoves) : Play(allLegalMoves[i])

NextEngine == PlayLegalMove

SpecEngine == InitEngine /\ [][NextEngine]_vars

\* The front end resumed in a game in progress, its earlier moves not
\* recorded: the kings in the corner and any of four more pieces.
ResumedExtras ==
  { At(<<"b", "6">>, "w", "P"), At(<<"b", "7">>, "w", "P"),
    At(<<"c", "8">>, "b", "R"), At(<<"d", "7">>, "w", "R") }

ResumedPositions ==
  { placeAll([board |-> emptyBoard], CornerKings \cup ex) :
      ex \in SUBSET ResumedExtras }

InitResumed == InitFrom(ResumedPositions)

SpecResumed == InitResumed /\ [][Next]_vars

-----------------------------------------------------------------------------
(* Properties of the engine *)

SeqToSet(seq) == {seq[i] : i \in 1..Len(seq)}

pieceAt(pos, sq) == pos.board[sq.r][sq.c]

RECURSIVE pseudoInRow(_, _, _, _)
pseudoInRow(pos, t, r, c) ==
  IF c >= BoardSize THEN <<>>
  ELSE (IF pieceAt(pos, Sq(r, c)) # null /\ pieceAt(pos, Sq(r, c)).color = t
        THEN pseudoLegalMovesForSquare(pos, Sq(r, c)) ELSE <<>>)
       \o pseudoInRow(pos, t, r, c + 1)

RECURSIVE pseudoFrom(_, _, _)
pseudoFrom(pos, t, r) ==
  IF r >= BoardSize THEN <<>>
  ELSE pseudoInRow(pos, t, r, 0) \o pseudoFrom(pos, t, r + 1)

\* Every pseudo-legal move of colour t, legal or not.
PseudoMovesOf(pos, t) == pseudoFrom(pos, t, 0)

KingSafeAfter(pos, m, t) ==
  LET next == applyMove(pos, m)
      k == findKing(next, t)
  IN k # nullSquare => ~isSquareAttacked(next, k, opposite(t))

\* C1: for the position of every state and both colours, no move that
\* generateLegalMoves returns leaves the mover's own king on a square the
\* opposite colour attacks once applyMove has applied it; and after every
\* makeMove of a legal move the mover's king stands unattacked.
C1_LegalMovesKeepKingSafe ==
  /\ \A t \in Colors :
       \A m \in SeqToSet(generateLegalMoves(position, t)) :
         KingSafeAfter(position, m, t)
  /\ lastCall.made =>
       LET k == findKing(position, lastCall.color)
       IN k # nullSquare
          => ~isSquareAttacked(position, k, opposite(lastCall.color))

\* A king has captured a piece while some of the pseudo-legal moves of its
\* side were rejected for exposing it.
C1_Witness ==
  /\ lastCall.made
  /\ pieceAt(lastCall.before, lastCall.move.from).type = "K"
  /\ lastCall.move.captured # null
  /\ Len(generateLegalMoves(lastCall.before, lastCall.color))
       < Len(PseudoMovesOf(lastCall.before, lastCall.color))

C2_Position ==
  placeAll([board |-> emptyBoard],
           {At(<<"a", "8">>, "b", "K"), At(<<"a", "6">>, "w", "K"),
            At(<<"b", "6">>, "w", "P")})

\* C2 as stated: with black king a8, white king a6, white pawn b6 and black
\* to move, black has no legal move and is not in check.
C2_Stalemate ==
  (position = C2_Position /\ turn = "b" /\ ~lastCall.made)
    => /\ generateLegalMoves(position, "b") = <<>>
       /\ ~inCheck(position, "b")

\* C2 amended: in that position black is not in check and has exactly one
\* legal move, the king from a8 to b8, so the position is no stalemate.
C2_OneLegalMove ==
  (position = C2_Position /\ turn = "b" /\ ~lastCall.made)
    => /\ generateLegalMoves(position, "b")
            = <<Move(parseSquare(<<"a", "8">>), parseSquare(<<"b", "8">>),
                     noPromotion, null)>>
       /\ ~inCheck(position, "b")
       /\ ~status.stalemated /\ ~status.checkmated

\* Black has played its move from the C2 position.
C2_Witness ==
  /\ lastCall.made
  /\ lastCall.before = C2_Position
  /\ lastCall.color = "b"
  /\ lastCall.san = <<"K", "a", "8", "-", "b", "8">>

AllSquares == {Sq(r, c) : r \in Idx, c \in Idx}

SlidingDeltasOf(type) ==
  CASE type = "B" -> SeqToSet(BishopDeltas)
    [] type = "R" -> SeqToSet(RookDeltas)
    [] type = "Q" -> SeqToSet(BishopDeltas) \cup SeqToSet(RookDeltas)
    [] OTHER -> {}

RaySquare(from, d, k) == Sq(from.r + k * d[1], from.c + k * d[2])

\* The squares strictly between from and the k-th square of the ray are empty.
RayClear(pos, from, d, k) ==
  \A j \in 1..(k - 1) : pieceAt(pos, RaySquare(from, d, j)) = null

SlidesAsRays(pos, from) ==
  LET p == pieceAt(pos, from)
      moves == pseudoLegalMovesForSquare(pos, from)
      dirs == SlidingDeltasOf(p.type)
  IN /\ \A d \in dirs, k \in 1..(BoardSize - 1) :
          LET to == RaySquare(from, d, k)
          IN inside(to.r, to.c) =>
               LET target == pieceAt(pos, to)
                   hits == {m \in SeqToSet(moves) : m.to = to}
               IN /\ (hits # {}) <=>
                       (RayClear(pos, from, d, k)
                        /\ (target = null \/ target.color # p.color))
                  /\ hits \subseteq {Move(from, to, noPromotion, target)}
     /\ \A m \in SeqToSet(moves) :
          \E d \in dirs, k \in 1..(BoardSize - 1) : m.to = RaySquare(from, d, k)
     /\ Cardinality(SeqToSet(moves)) = Len(moves)

\* C5: for every bishop, rook and queen of the position, in each of its
\* directions the generator emits a move to a square exactly when all squares
\* before it on the ray are empty and the square itself is empty or holds an
\* enemy piece (then as a capture of that piece); so nothing is emitted onto a
\* friendly piece or beyond the first occupied square, nor off the rays.
C5_SlidingStopsAtFirstPiece ==
  \A from \in AllSquares :
    pieceAt(position, from).type \in {"B", "R", "Q"}
      => SlidesAsRays(position, from)

\* A slider with an enemy piece as first occupied square of one ray, at
\* distance two or more and a board square behind it, and a friendly piece as
\* first occupied square of another ray.
C5_Witness ==
  \E from \in AllSquares :
    LET p == pieceAt(position, from)
        dirs == SlidingDeltasOf(p.type)
        Blocked(d, k, own) ==
          LET to == RaySquare(from, d, k)
          IN /\ inside(to.r, to.c)
             /\ RayClear(position, from, d, k)
             /\ pieceAt(position, to) # null
             /\ (pieceAt(position, to).color = p.color) = own
    IN /\ p.type \in {"B", "R", "Q"}
       /\ \E d \in dirs, k \in 2..(BoardSize - 2) :
            /\ Blocked(d, k, FALSE)
            /\ inside(RaySquare(from, d, k + 1).r, RaySquare(from, d, k + 1).c)
       /\ \E d \in dirs, k \in 2..(BoardSize - 1) : Blocked(d, k, TRUE)

EndsWith(str, suffix) ==
  /\ Len(str) >= Len(suffix)
  /\ SubSeq(str, Len(str) - Len(suffix) + 1, Len(str)) = suffix

PromotesToQueen(pos, m, res) ==
  /\ pieceAt(res.position, m.to) = Piece(pieceAt(pos, m.from).color, "Q")
  /\ pieceAt(res.position, m.from) = null
  /\ EndsWith(res.san, <<"=", "Q">>)

\* C6: every generated pawn move that lands on row 0 or row 7, pushed or
\* capturing, makes makeMove return a position with a queen of the pawn's
\* colour on the destination and nothing on the origin, and a notation that
\* ends with "=Q".
C6_PawnPromotesToQueen ==
  /\ \A t \in Colors :
       \A m \in SeqToSet(PseudoMovesOf(position, t)) :
         (pieceAt(position, m.from).type = "P" /\ isPromotionRow(m.to.r))
           => PromotesToQueen(position, m, makeMove(position, m))
  /\ (/\ lastCall.made
      /\ pieceAt(lastCall.before, lastCall.move.from).type = "P"
      /\ isPromotionRow(lastCall.move.to.r))
       => PromotesToQueen(lastCall.before, lastCall.move,
                          [position |-> position, san |-> lastCall.san])

\* A white pawn has captured from row 1 onto row 0.
C6_Witness ==
  /\ lastCall.made
  /\ pieceAt(lastCall.before, lastCall.move.from) = Piece("w", "P")
  /\ lastCall.move.from.r = 1
  /\ lastCall.move.to.r = 0
  /\ lastCall.move.from.c # lastCall.move.to.c
  /\ pieceAt(lastCall.before, lastCall.move.to) # null

\* The notation the claim describes, read off the position before the move.
ExpectedNotation(pos, m) ==
  LET piece == pieceAt(pos, m.from)
      target == pieceAt(pos, m.to)
      letter == IF piece.type = "P" THEN <<>> ELSE <<piece.type>>
      separator == IF target # null /\ target.color # piece.color THEN "x"
                   ELSE IF target = null THEN "-"
                   ELSE "?"
      suffix == IF m.promotion # noPromotion THEN <<"=", m.promotion>>
                ELSE <<>>
  IN letter \o <<FILES[m.from.c + 1], DIGITS[BoardSize - m.from.r + 1]>>
     \o <<separator>>
     \o <<FILES[m.to.c + 1], DIGITS[BoardSize - m.to.r + 1]>> \o suffix

\* C7: for every legal move of the side to move, makeMove's notation is the
\* piece letter (none for a pawn), the origin square, 'x' if the destination
\* held an enemy piece before the move and '-' if it was empty, the
\* destination square and the promotion suffix, if any.
C7_NotationSeparator ==
  /\ \A m \in SeqToSet(allLegalMoves) :
       makeMove(position, m).san = ExpectedNotation(position, m)
  /\ lastCall.made
       => lastCall.san = ExpectedNotation(lastCall.before, lastCall.move)

\* A knight has moved to an empty square: N<from>-<to>.
C7_Witness ==
  /\ lastCall.made
  /\ pieceAt(lastCall.before, lastCall.move.from).type = "N"
  /\ pieceAt(lastCall.before, lastCall.move.to) = null
  /\ Len(lastCall.san) = 6
  /\ lastCall.san[1] = "N"
  /\ lastCall.san[4] = "-"
  /\ "x" \notin SeqToSet(lastCall.san)

\* The position `after` is `before` with the origin of m emptied and the moved
\* piece (a queen for a promoting pawn) on its destination, nothing else
\* changed.
OnlyFromAndToChange(before, m, after) ==
  LET piece == pieceAt(before, m.from)
      placed == IF piece.type = "P" /\ m.promotion # noPromotion
                THEN Piece(piece.color, "Q") ELSE piece
  IN \A sq \in AllSquares :
       pieceAt(after, sq) = IF sq = m.to THEN placed
                            ELSE IF sq = m.from THEN null
                            ELSE pieceAt(before, sq)

\* C8: makeMove and applyMove leave the position they are given as it was, and
\* the position they return differs from it only on the origin square (empty)
\* and the destination square (the moved piece or the promoted queen); for
\* every pseudo-legal move of either colour and for the move just made.
C8_ArgumentUntouchedFrameKept ==
  /\ \A t \in Colors :
       \A m \in SeqToSet(PseudoMovesOf(position, t)) :
         LET store == applyMoveStore(position, m)
         IN /\ store.arg = position
            /\ OnlyFromAndToChange(position, m, applyMove(position, m))
            /\ makeMove(position, m).arg = position
  /\ lastCall.made
       => /\ lastCall.arg = lastCall.before
          /\ OnlyFromAndToChange(lastCall.before, lastCall.move, position)

\* A capture has been made on a board with at least two bystanders.
C8_Witness ==
  /\ lastCall.made
  /\ lastCall.move.captured # null
  /\ Cardinality({sq \in AllSquares :
                    /\ sq \notin {lastCall.move.from, lastCall.move.to}
                    /\ pieceAt(position, sq) # null}) >= 2
  /\ position # lastCall.before

-----------------------------------------------------------------------------
(* Properties of the front end *)

FoolsMateHistory ==
  << <<"f", "2", "-", "f", "3">>, <<"e", "7", "-", "e", "5">>,
     <<"g", "2", "-", "g", "4">>, <<"Q", "d", "8", "-", "h", "4">> >>

\* C3: in the position reached from the initial position by f2-f3, e7-e5,
\* g2-g4 and Qd8-h4, each applied by makeMove, white has no legal move and is
\* in check.
C3_FoolsMateIsCheckmate ==
  moveHistory = FoolsMateHistory
    => /\ generateLegalMoves(position, "w") = <<>>
       /\ inCheck(position, "w")
       /\ turn = "w"
       /\ pieceAt(position, parseSquare(<<"h", "4">>)) = Piece("b", "Q")

\* The four moves of the fool's mate have been played.
C3_Witness ==
  /\ moveHistory = FoolsMateHistory
  /\ lastCall.made
  /\ lastCall.san = <<"Q", "d", "8", "-", "h", "4">>

InitialWhiteMoves ==
  {Move(Sq(WhiteStartRow, c), Sq(WhiteStartRow - 1, c), noPromotion, null) :
     c \in Idx}
  \cup {Move(Sq(WhiteStartRow, c), Sq(WhiteStartRow - 2, c), noPromotion, null) :
          c \in Idx}
  \cup {Move(parseSquare(ft[1]), parseSquare(ft[2]), noPromotion, null) :
          ft \in { << <<"b", "1">>, <<"a", "3">> >>,
                   << <<"b", "1">>, <<"c", "3">> >>,
                   << <<"g", "1">>, <<"f", "3">> >>,
                   << <<"g", "1">>, <<"h", "3">> >> }}

\* C4: in the initial position white has exactly 20 legal moves, the 8 single
\* and 8 double pawn pushes from row 6 and the 4 knight moves from b1 and g1,
\* none of them with a captured piece.
C4_TwentyOpeningMoves ==
  (position = createInitialPosition /\ turn = "w")
    => LET moves == generateLegalMoves(position, turn)
       IN /\ Len(moves) = 20
          /\ SeqToSet(moves) = InitialWhiteMoves
          /\ \A m \in SeqToSet(moves) : m.captured = null
          /\ allLegalMoves = moves

\* In the initial position the knight on g1 is selected, with its two moves.
C4_Witness ==
  /\ position = createInitialPosition
  /\ turn = "w"
  /\ selected = parseSquare(<<"g", "1">>)
  /\ Len(legalMovesFromSelected) = 2

\* C9: the stored move list is empty when nothing is selected and otherwise
\* the legal moves of the side to move, in the current position, that start
\* on the selected square; and every move handed to makeMove was a legal move
\* of the side to move in the position it was applied to.
C9_SelectionHoldsLegalMoves ==
  /\ selected = nullSquare => legalMovesFromSelected = <<>>
  /\ selected # nullSquare =>
       legalMovesFromSelected =
         SelectSeq(generateLegalMoves(position, turn),
                   LAMBDA m : m.from = selected)
  /\ lastCall.made =>
       lastCall.move
         \in SeqToSet(generateLegalMoves(lastCall.before, lastCall.color))

\* After at least two moves a piece with legal moves is selected.
C9_Witness ==
  /\ Len(moveHistory) >= 2
  /\ selected # nullSquare
  /\ Len(legalMovesFromSelected) >= 1
  /\ lastCall.made

Ended == status.checkmated \/ status.stalemated

StatusMatchesPosition ==
  LET noMoves == generateLegalMoves(position, turn) = <<>>
      check == inCheck(position, turn)
  IN /\ status.checkmated <=> (noMoves /\ check)
     /\ status.stalemated <=> (noMoves /\ ~check)
     /\ ~(status.checkmated /\ status.stalemated)

OnlyRestartLeavesEndedGame ==
  (Ended /\ <<position, turn, moveHistory>>' # <<position, turn, moveHistory>>)
    => /\ position' = createInitialPosition
       /\ turn' = "w"
       /\ moveHistory' = <<>>

\* C10: the status is checkmated exactly when the side to move has no legal
\* move and is in check, stalemated exactly when it has none and is not in
\* check; and once the game has ended a step changes the position, the turn
\* or the move history only by restarting the game.
C10_EndedGameStaysEnded ==
  [] StatusMatchesPosition /\ [][OnlyRestartLeavesEndedGame]_vars

\* A move made by clicking has stalemated the side to move.
C10_Witness ==
  /\ status.stalemated
  /\ ~status.checkmated
  /\ lastCall.made
  /\ Len(moveHistory) = 1

KingsOf(pos, color) ==
  {sq \in AllSquares : pieceAt(pos, sq) = Piece(color, "K")}

\* C11: in every state of a game played through the click handler from the
\* initial position, the board holds exactly one king of each colour and the
\* side that is not to move is not in check; so no move generated for the
\* side to move, legal or pseudo-legal, captures a king.
C11_KingsStayAndWaitingSideSafe ==
  /\ \A color \in Colors : Cardinality(KingsOf(position, color)) = 1
  /\ ~inCheck(position, opposite(turn))
  /\ \A m \in SeqToSet(generateLegalMoves(position, turn))
              \cup SeqToSet(PseudoMovesOf(position, turn)) :
       m.captured.type # "K" /\ pieceAt(position, m.to).type # "K"

\* After four moves or more the side to move is in check: its king is
\* attacked while the other side waits.
C11_Witness ==
  /\ Len(moveHistory) >= 4
  /\ lastCall.made
  /\ inCheck(position, turn)
  /\ turn = opposite(lastCall.color)

====
